---- MODULE Spec2Model ----
(***************************************************************************)
(* A model of the two utilities of the repository:                         *)
(*   - cleanSRT.py, the subtitle filename normalizer (a scan of the        *)
(*     working directory that renames or deletes "*_xx*.srt" files);       *)
(*   - generate_mtg_pdf.py, the grid paginator (discovery, layout,         *)
(*     batching of images into pages, per-image failure handling).         *)
(* File names are sequences of one-character strings, so that slicing,     *)
(* searching and lower-casing are computed as Python computes them.        *)
(* Lengths are integers in millimetres; the two centring offsets are kept  *)
(* in half-millimetres so that the division by two of the code is exact.   *)
(***************************************************************************)
EXTENDS Integers, Sequences, FiniteSets, TLC

VARIABLES
    \* ---- cleanSRT.py ----
    fs,         \* the working directory: file name -> [content, size]
    fs0,        \* the directory as it was when os.listdir() ran
    todo,       \* names of the os.listdir() snapshot not yet iterated
    prev,       \* the directory before the last iteration of the loop
    last,       \* what the last iteration did: [name, branch]
    npc,        \* position of the script: "scan", "done" or "crashed"
    \* ---- generate_mtg_pdf.py ----
    cfg,        \* the configuration constants the layout is computed from
    layout,     \* result of calculate_layout(), or NoLayout
    srcKind,    \* what --source_dir names: "missing", "notdir" or "dir"
    srcFiles,   \* the entries rglob('*') finds: [path, suffix, is_file]
    preview,    \* --preview
    pc,         \* position of main(): "main", "generate", "batch", "image",
                \* "save" or "exit"
    images,     \* the sorted list of image paths
    i, j,       \* the loop variables of generate_pdf
    batch,      \* images[i:i + cards_per_page]
    current_page,
    processed_images,
    pages,      \* the batch of every page closed by showPage(), in order
    drawn,      \* the drawImage() calls that succeeded: [page, j, image, x, y]
    loadFailed,     \* images for which resize_image_to_card returned None
    insertFailed,   \* images for which drawImage raised
    tempFiles,  \* temp_card_<n>.png files left on disk
    tempEver,   \* number of temporary files ever written
    canvas,     \* the Canvas object exists
    saves,      \* number of c.save() calls
    error,      \* the exception main() caught, or "none"
    exitCode    \* the exit status of the process, -1 while it runs

nvars == <<fs, fs0, todo, prev, last, npc>>
lvars == <<cfg, layout>>
pvars == <<srcKind, srcFiles, preview, pc, images, i, j, batch, current_page,
           processed_images, pages, drawn, loadFailed, insertFailed,
           tempFiles, tempEver, canvas, saves, error, exitCode>>
vars == <<nvars, lvars, pvars>>

(***************************************************************************)
(* Bounds of the model.                                                    *)
(***************************************************************************)
MaxFiles == 3
MaxSize == 2
MaxImages == 10
MaxFailures == 2

Max(a, b) == IF a >= b THEN a ELSE b
Min(a, b) == IF a <= b THEN a ELSE b

(***************************************************************************)
(* Python string primitives used by cleanSRT.py.                           *)
(***************************************************************************)
RECURSIVE Count(_, _)
Count(s, c) ==
    IF s = <<>> THEN 0
    ELSE (IF Head(s) = c THEN 1 ELSE 0) + Count(Tail(s), c)

\* str.index: 0-based position of the first occurrence (the caller has
\* checked that there is one).
IndexLast(s, c) ==
    (CHOOSE k \in 1..Len(s) : s[k] = c /\ \A m \in (k+1)..Len(s) : s[m] # c) - 1
Index(s, c) ==
    (CHOOSE k \in 1..Len(s) : s[k] = c /\ \A m \in 1..(k-1) : s[m] # c) - 1

\* s[a:b] with Python's clamping of the bounds and negative offsets.
PyBound(n, len) ==
    IF n < 0 THEN Max(len + n, 0) ELSE Min(n, len)
PySlice(s, a, b) ==
    LET lo == PyBound(a, Len(s))
        hi == PyBound(b, Len(s))
    IN  IF hi <= lo THEN <<>> ELSE SubSeq(s, lo + 1, hi)

LowerChar(c) ==
    CASE c = "E" -> "e"
      [] c = "N" -> "n"
      [] c = "S" -> "s"
      [] c = "R" -> "r"
      [] c = "T" -> "t"
      [] OTHER -> c
Lower(s) == [k \in 1..Len(s) |-> LowerChar(s[k])]

DotSrt == <<".", "s", "r", "t">>

(***************************************************************************)
(* The file names the modelled directories are drawn from.                 *)
(***************************************************************************)
N_m_EN_x_srt == <<"m", "_", "E", "N", "_", "x", ".", "s", "r", "t">>
N_b_en_srt   == <<"b", "_", "e", "n", ".", "s", "r", "t">>
N_en_srt     == <<"e", "n", ".", "s", "r", "t">>
N_c_fr_srt   == <<"c", "_", "f", "r", ".", "s", "r", "t">>
N_a__b_srt   == <<"a", "_", "_", "b", ".", "s", "r", "t">>
N__b_srt     == <<"_", "b", ".", "s", "r", "t">>
N_z_en_SRT   == <<"z", "_", "e", "n", ".", "S", "R", "T">>
N_q__srt     == <<"q", "_", ".", "s", "r", "t">>
N__en_srt    == <<"_", "e", "n", ".", "s", "r", "t">>

Names ==
    { N_m_EN_x_srt, N_b_en_srt, N__en_srt, N_en_srt, N_c_fr_srt,
      N_a__b_srt, N__b_srt, N_z_en_SRT, N_q__srt }

Sizes == 0..MaxSize

(***************************************************************************)
(* cleanSRT.py: the test of line 9 and the target name of lines 11-12.     *)
(***************************************************************************)
IsCandidate(filename) ==
    Count(filename, "_") > 0 /\ PySlice(filename, -4, Len(filename)) = DotSrt

TargetName(filename) ==
    LET iu == Index(filename, "_") + 1
    IN  Lower(PySlice(filename, iu, iu + 2) \o DotSrt)

\* line 16: the existing target is removed and replaced by the source
SourceReplacesAlways(f2size, fsize) == TRUE
SourceReplacesOnTie(f2size, fsize) == f2size >= fsize
SourceReplaces(f2size, fsize) == f2size > fsize

\* the file system calls, on a directory that holds regular files only
isfile(d, name) == name \in DOMAIN d
remove(d, name) == [n \in DOMAIN d \ {name} |-> d[n]]
rename(d, src, dst) ==
    [n \in (DOMAIN d \ {src}) \cup {dst} |-> IF n = dst THEN d[src] ELSE d[n]]

NoLast == [name |-> <<>>, branch |-> "none"]

\* One iteration of the loop of lines 7-20 on `filename`.  os.rename,
\* os.remove and os.path.getsize raise when the file is missing, and
\* nothing catches it: the script ends there.
ScanBody(filename) ==
    LET f2 == TargetName(filename)
    IN  IF ~IsCandidate(filename)
        THEN /\ fs' = fs
             /\ last' = [name |-> filename, branch |-> "skip"]
             /\ npc' = npc
        ELSE IF ~isfile(fs, filename)
        THEN /\ fs' = fs
             /\ last' = [name |-> filename, branch |-> "error"]
             /\ npc' = "crashed"
        ELSE IF ~isfile(fs, f2)
        THEN /\ fs' = rename(fs, filename, f2)
             /\ last' = [name |-> filename, branch |-> "rename"]
             /\ npc' = npc
        ELSE IF SourceReplaces(fs[f2].size, fs[filename].size)
        THEN /\ fs' = rename(remove(fs, f2), filename, f2)
             /\ last' = [name |-> filename, branch |-> "replace"]
             /\ npc' = npc
        ELSE /\ fs' = remove(fs, filename)
             /\ last' = [name |-> filename, branch |-> "discard"]
             /\ npc' = npc

ScanStep ==
    /\ npc = "scan"
    /\ \E filename \in todo :
          /\ todo' = todo \ {filename}
          /\ prev' = fs
          /\ ScanBody(filename)
    /\ UNCHANGED <<fs0, lvars, pvars>>

ScanEnd ==
    /\ npc = "scan"
    /\ todo = {}
    /\ npc' = "done"
    /\ UNCHANGED <<fs, fs0, todo, prev, last, lvars, pvars>>

\* Every directory of at most MaxFiles files with the names above; the
\* content of a file is identified by the name it had at the start.
Directories ==
    UNION { [S -> Sizes] : S \in { T \in SUBSET Names : Cardinality(T) <= MaxFiles } }

(***************************************************************************)
(* generate_mtg_pdf.py: the configuration constants (millimetres).         *)
(***************************************************************************)
CARD_WIDTH_MM == 63
CARD_HEIGHT_MM == 88
MARGIN_TOP == 5
MARGIN_BOTTOM == 5
MARGIN_LEFT == 5
MARGIN_RIGHT == 5
CARD_SPACING_X == 1
CARD_SPACING_Y == 1
\* A4[0] / mm and A4[1] / mm evaluate to exactly 210.0 and 297.0
A4_WIDTH_MM == 210
A4_HEIGHT_MM == 297

SUPPORTED_EXTENSIONS == {".png", ".jpg", ".jpeg"}

Config(pw, ph, margin, cw, ch, spacing) ==
    [ page_width |-> pw, page_height |-> ph,
      margin_left |-> margin, margin_right |-> margin,
      margin_top |-> margin, margin_bottom |-> margin,
      card_width |-> cw, card_height |-> ch,
      spacing_x |-> spacing, spacing_y |-> spacing ]

ActualConfig ==
    [ page_width |-> A4_WIDTH_MM, page_height |-> A4_HEIGHT_MM,
      margin_left |-> MARGIN_LEFT, margin_right |-> MARGIN_RIGHT,
      margin_top |-> MARGIN_TOP, margin_bottom |-> MARGIN_BOTTOM,
      card_width |-> CARD_WIDTH_MM, card_height |-> CARD_HEIGHT_MM,
      spacing_x |-> CARD_SPACING_X, spacing_y |-> CARD_SPACING_Y ]

\* int(a / b) for b > 0: Python's int() truncates towards zero.
PyInt(a, b) == IF a >= 0 THEN a \div b ELSE -((-a) \div b)

NoLayout == [cols |-> -1, rows |-> -1, start_x |-> 0, start_y |-> 0]
NoConfig == [page_width |-> 0]

\* calculate_layout(), lines 157-180.  start_x and start_y are in
\* half-millimetres (twice the value the code returns).
calculate_layout_uncapped(c) ==
    LET available_width == c.page_width - c.margin_left - c.margin_right
        available_height == c.page_height - c.margin_top - c.margin_bottom
        cols == PyInt(available_width + c.spacing_x, c.card_width + c.spacing_x)
        rows == PyInt(available_height + c.spacing_y, c.card_height + c.spacing_y)
        total_width == cols * c.card_width + (cols - 1) * c.spacing_x
        total_height == rows * c.card_height + (rows - 1) * c.spacing_y
    IN  [ cols |-> cols, rows |-> rows,
          start_x |-> 2 * c.margin_left + (available_width - total_width),
          start_y |-> 2 * c.margin_bottom + (available_height - total_height) ]
calculate_layout(c) ==
    LET available_width == c.page_width - c.margin_left - c.margin_right
        available_height == c.page_height - c.margin_top - c.margin_bottom
        cols0 == PyInt(available_width + c.spacing_x, c.card_width + c.spacing_x)
        rows0 == PyInt(available_height + c.spacing_y, c.card_height + c.spacing_y)
        cols == Min(cols0, 3)
        rows == Min(rows0, 3)
        total_width == cols * c.card_width + (cols - 1) * c.spacing_x
        total_height == rows * c.card_height + (rows - 1) * c.spacing_y
    IN  [ cols |-> cols, rows |-> rows,
          start_x |-> 2 * c.margin_left + (available_width - total_width),
          start_y |-> 2 * c.margin_bottom + (available_height - total_height) ]

(***************************************************************************)
(* The layout alone: calculate_layout() applied to a range of              *)
(* configurations with a non-empty printable area.                         *)
(***************************************************************************)
LayoutConfigs ==
    { Config(pg[1], pg[2], m, cw, ch, sp) :
        pg \in {<<A4_WIDTH_MM, A4_HEIGHT_MM>>, <<148, 210>>, <<297, 420>>},
        m \in {0, MARGIN_LEFT, 20},
        cw \in {40, CARD_WIDTH_MM, 66, 70, 100, 250},
        ch \in {50, CARD_HEIGHT_MM, 120, 150, 450},
        sp \in {0, CARD_SPACING_X, 5} }

PaginatorIdle ==
    /\ srcKind = "dir"
    /\ srcFiles = {}
    /\ preview = FALSE
    /\ pc = "idle"
    /\ images = <<>>
    /\ i = 0
    /\ j = 0
    /\ batch = <<>>
    /\ current_page = 0
    /\ processed_images = 0
    /\ pages = <<>>
    /\ drawn = {}
    /\ loadFailed = {}
    /\ insertFailed = {}
    /\ tempFiles = {}
    /\ tempEver = 0
    /\ canvas = FALSE
    /\ saves = 0
    /\ error = "none"
    /\ exitCode = -1

NormalizerIdle ==
    /\ fs = <<>>
    /\ fs0 = <<>>
    /\ todo = {}
    /\ prev = <<>>
    /\ last = NoLast
    /\ npc = "idle"

LayoutIdle ==
    /\ cfg = NoConfig
    /\ layout = NoLayout

ComputeLayout ==
    /\ layout = NoLayout
    /\ cfg # NoConfig
    /\ layout' = calculate_layout(cfg)
    /\ UNCHANGED <<cfg, nvars, pvars>>

InitLayout ==
    /\ cfg \in LayoutConfigs
    /\ layout = NoLayout
    /\ NormalizerIdle
    /\ PaginatorIdle

NextLayout == ComputeLayout

SpecLayout == InitLayout /\ [][NextLayout]_vars

InitNormalizer ==
    /\ \E sz \in Directories :
          fs = [n \in DOMAIN sz |-> [content |-> n, size |-> sz[n]]]
    /\ fs0 = fs
    /\ todo = DOMAIN fs
    /\ prev = fs
    /\ last = NoLast
    /\ npc = "scan"
    /\ LayoutIdle
    /\ PaginatorIdle

NextNormalizer == ScanStep \/ ScanEnd

SpecNormalizer == InitNormalizer /\ [][NextNormalizer]_vars

(***************************************************************************)
(* generate_mtg_pdf.py: discovery (find_image_files, lines 91-107).        *)
(***************************************************************************)
SuffixLower(sfx) ==
    CASE sfx = ".PNG" -> ".png"
      [] sfx = ".JPG" -> ".jpg"
      [] sfx = ".JPEG" -> ".jpeg"
      [] sfx = ".TXT" -> ".txt"
      [] OTHER -> sfx

\* sorted(): the paths of a set, ascending
RECURSIVE Sorted(_)
Sorted(S) ==
    IF S = {} THEN <<>>
    ELSE LET m == CHOOSE x \in S : \A y \in S : x <= y
         IN  <<m>> \o Sorted(S \ {m})

find_image_files_unchecked(kind, entries) ==
    [ raised |-> "none",
      files |-> Sorted({ e.path : e \in
                  { f \in entries : f.is_file /\ SuffixLower(f.suffix) \in SUPPORTED_EXTENSIONS } }) ]
find_image_files(kind, entries) ==
    IF kind = "missing"
    THEN [raised |-> "FileNotFoundError", files |-> <<>>]
    ELSE IF kind = "notdir"
    THEN [raised |-> "NotADirectoryError", files |-> <<>>]
    ELSE [ raised |-> "none",
           files |-> Sorted({ e.path : e \in
                       { f \in entries : f.is_file /\ SuffixLower(f.suffix) \in SUPPORTED_EXTENSIONS } }) ]

\* main(), lines 369-386, up to the call of generate_pdf
MainStart ==
    /\ pc = "main"
    /\ LET r == find_image_files(srcKind, srcFiles)
       IN  IF r.raised # "none"
           THEN /\ error' = r.raised
                /\ exitCode' = 1
                /\ pc' = "exit"
                /\ images' = images
           ELSE IF r.files = <<>>
           THEN /\ error' = error
                /\ exitCode' = 0
                /\ pc' = "exit"
                /\ images' = r.files
           ELSE /\ error' = error
                /\ exitCode' = exitCode
                /\ pc' = "generate"
                /\ images' = r.files
    /\ UNCHANGED <<srcKind, srcFiles, preview, i, j, batch, current_page,
                   processed_images, pages, drawn, loadFailed, insertFailed,
                   tempFiles, tempEver, canvas, saves, nvars, lvars>>

(***************************************************************************)
(* generate_pdf, lines 225-306.                                            *)
(***************************************************************************)
cards_per_page == layout.cols * layout.rows

\* lines 225-245: layout, canvas, counters and the range() of the loop,
\* which raises ValueError on a step of zero (caught by main, exit 1)
GeneratePdfStart ==
    /\ pc = "generate"
    /\ IF images = <<>>
       THEN /\ pc' = "exit"
            /\ exitCode' = 0
            /\ UNCHANGED <<layout, canvas, processed_images, current_page, i, error>>
       ELSE /\ layout' = calculate_layout(cfg)
            /\ canvas' = TRUE
            /\ processed_images' = 0
            /\ current_page' = 1
            /\ i' = 0
            /\ IF layout'.cols * layout'.rows = 0
               THEN /\ error' = "ValueError"
                    /\ exitCode' = 1
                    /\ pc' = "exit"
               ELSE /\ error' = error
                    /\ exitCode' = exitCode
                    /\ pc' = "batch"
    /\ UNCHANGED <<cfg, srcKind, srcFiles, preview, images, j, batch, pages,
                   drawn, loadFailed, insertFailed, tempFiles, tempEver,
                   saves, nvars>>

\* line 249
BatchShort(imgs, start, size) == PySlice(imgs, start, start + size - 1)
Batch(imgs, start, size) == PySlice(imgs, start, start + size)

\* line 245: the range is exhausted
LoopEnd ==
    /\ pc = "batch"
    /\ i >= Len(images)
    /\ pc' = "save"
    /\ UNCHANGED <<cfg, layout, srcKind, srcFiles, preview, images, i, j, batch,
                   current_page, processed_images, pages, drawn, loadFailed,
                   insertFailed, tempFiles, tempEver, canvas, saves, error,
                   exitCode, nvars>>

\* lines 246-247
PreviewBreak ==
    /\ pc = "batch"
    /\ i < Len(images)
    /\ preview /\ current_page > 1
    /\ pc' = "save"
    /\ UNCHANGED <<cfg, layout, srcKind, srcFiles, preview, images, i, j, batch,
                   current_page, processed_images, pages, drawn, loadFailed,
                   insertFailed, tempFiles, tempEver, canvas, saves, error,
                   exitCode, nvars>>

\* lines 249-250
BatchStart ==
    /\ pc = "batch"
    /\ i < Len(images)
    /\ ~(preview /\ current_page > 1)
    /\ batch' = Batch(images, i, cards_per_page)
    /\ j' = 0
    /\ pc' = "image"
    /\ UNCHANGED <<cfg, layout, srcKind, srcFiles, preview, images, i,
                   current_page, processed_images, pages, drawn, loadFailed,
                   insertFailed, tempFiles, tempEver, canvas, saves, error,
                   exitCode, nvars>>

\* lines 255-260: the slot of batch index k and its position, in
\* half-millimetres from the bottom-left corner of the page
SlotCol(k) == k % layout.cols
SlotRowWrapped(k) == k % layout.rows
SlotRow(k) == k \div layout.cols
CardX(col) == layout.start_x + 2 * col * (cfg.card_width + cfg.spacing_x)
CardYFromBottom(row) ==
    layout.start_y + 2 * row * (cfg.card_height + cfg.spacing_y)
CardY(row) ==
    layout.start_y + 2 * (layout.rows - 1 - row) * (cfg.card_height + cfg.spacing_y)

Failures ==
    Cardinality(loadFailed) + Cardinality(insertFailed) + Cardinality(tempFiles)

\* lines 292-296: os.remove(temp_path), whose failure is swallowed
TempCleanup(n) ==
    /\ tempEver' = tempEver + 1
    /\ \/ tempFiles' = tempFiles
       \/ /\ Failures < MaxFailures
          /\ tempFiles' = tempFiles \cup {n}

\* lines 263-265: resize_image_to_card returned None
ImageLoadFailsAbort ==
    /\ pc = "image"
    /\ j < Len(batch)
    /\ Failures < MaxFailures
    /\ loadFailed' = loadFailed \cup {batch[j + 1]}
    /\ error' = "Exception"
    /\ exitCode' = 1
    /\ pc' = "exit"
    /\ UNCHANGED <<cfg, layout, srcKind, srcFiles, preview, images, i, j, batch,
                   current_page, processed_images, pages, drawn, insertFailed,
                   tempFiles, tempEver, canvas, saves, nvars>>
ImageLoadFails ==
    /\ pc = "image"
    /\ j < Len(batch)
    /\ Failures < MaxFailures
    /\ loadFailed' = loadFailed \cup {batch[j + 1]}
    /\ j' = j + 1
    /\ UNCHANGED <<cfg, layout, srcKind, srcFiles, preview, pc, images, i, batch,
                   current_page, processed_images, pages, drawn, insertFailed,
                   tempFiles, tempEver, canvas, saves, error, exitCode, nvars>>

\* lines 263-296, drawImage succeeds
ImageDrawn ==
    /\ pc = "image"
    /\ j < Len(batch)
    /\ drawn' = drawn \cup
          {[ page |-> current_page, j |-> j, image |-> batch[j + 1],
             x |-> CardX(SlotCol(j)), y |-> CardY(SlotRow(j)) ]}
    /\ processed_images' = processed_images + 1
    /\ TempCleanup(i + j)
    /\ j' = j + 1
    /\ UNCHANGED <<cfg, layout, srcKind, srcFiles, preview, pc, images, i, batch,
                   current_page, pages, loadFailed, insertFailed, canvas,
                   saves, error, exitCode, nvars>>

\* lines 263-296, drawImage raises: logged, the card is not counted
ImageInsertFails ==
    /\ pc = "image"
    /\ j < Len(batch)
    /\ Failures < MaxFailures
    /\ insertFailed' = insertFailed \cup {batch[j + 1]}
    /\ TempCleanup(i + j)
    /\ j' = j + 1
    /\ UNCHANGED <<cfg, layout, srcKind, srcFiles, preview, pc, images, i, batch,
                   current_page, processed_images, pages, drawn, loadFailed,
                   canvas, saves, error, exitCode, nvars>>

\* lines 299-300 and the step of the range of line 245
EndPage ==
    /\ pc = "image"
    /\ j >= Len(batch)
    /\ pages' = Append(pages, batch)
    /\ current_page' = current_page + 1
    /\ i' = i + cards_per_page
    /\ pc' = "batch"
    /\ UNCHANGED <<cfg, layout, srcKind, srcFiles, preview, images, j, batch,
                   processed_images, drawn, loadFailed, insertFailed,
                   tempFiles, tempEver, canvas, saves, error, exitCode, nvars>>

\* line 303, then the return to main and the normal end of the process
SaveDocument ==
    /\ pc = "save"
    /\ saves' = saves + 1
    /\ exitCode' = 0
    /\ pc' = "exit"
    /\ UNCHANGED <<cfg, layout, srcKind, srcFiles, preview, images, i, j, batch,
                   current_page, processed_images, pages, drawn, loadFailed,
                   insertFailed, tempFiles, tempEver, canvas, error, nvars>>

\* The card sizes the paginator is run with: the actual one (3x3), and
\* sizes that give 2x2, 1x1, a capped 3x3 and a grid with no column.
PaginatorConfigs ==
    { Config(A4_WIDTH_MM, A4_HEIGHT_MM, MARGIN_LEFT, c[1], c[2], CARD_SPACING_X) :
        c \in { <<CARD_WIDTH_MM, CARD_HEIGHT_MM>>, <<70, 120>>, <<100, 150>>,
                <<40, 50>>, <<250, CARD_HEIGHT_MM>> } }

\* A source directory with n image files (paths 2, 4, ..., 2n, suffixes in
\* mixed case), a text file and a sub-directory named like an image.
ImageSuffix(k) ==
    CASE k % 4 = 0 -> ".png"
      [] k % 4 = 1 -> ".JPG"
      [] k % 4 = 2 -> ".jpeg"
      [] OTHER -> ".PNG"
SourceEntries(n) ==
    { [path |-> 2 * k, suffix |-> ImageSuffix(k), is_file |-> TRUE] : k \in 1..n }
      \cup { [path |-> 3, suffix |-> ".TXT", is_file |-> TRUE],
             [path |-> 5, suffix |-> ".png", is_file |-> FALSE] }

InitPaginator ==
    /\ cfg \in PaginatorConfigs
    /\ layout = NoLayout
    /\ srcKind \in {"missing", "notdir", "dir"}
    /\ \E n \in 0..MaxImages :
          srcFiles = IF srcKind = "dir" THEN SourceEntries(n) ELSE {}
    /\ preview \in BOOLEAN
    /\ pc = "main"
    /\ images = <<>>
    /\ i = 0
    /\ j = 0
    /\ batch = <<>>
    /\ current_page = 0
    /\ processed_images = 0
    /\ pages = <<>>
    /\ drawn = {}
    /\ loadFailed = {}
    /\ insertFailed = {}
    /\ tempFiles = {}
    /\ tempEver = 0
    /\ canvas = FALSE
    /\ saves = 0
    /\ error = "none"
    /\ exitCode = -1
    /\ NormalizerIdle

NextPaginator ==
    \/ MainStart
    \/ GeneratePdfStart
    \/ LoopEnd
    \/ PreviewBreak
    \/ BatchStart
    \/ ImageLoadFails
    \/ ImageDrawn
    \/ ImageInsertFails
    \/ EndPage
    \/ SaveDocument

SpecPaginator == InitPaginator /\ [][NextPaginator]_vars

(***************************************************************************)
(* Claims about cleanSRT.py.  They are stated on the directory before      *)
(* (prev) and after (fs) the iteration that handled last.name.             *)
(***************************************************************************)
Stepped == last.branch # "none"

\* the claims' own reading of a candidate and of its target name
HasUnderscore(name) == \E k \in 1..Len(name) : name[k] = "_"
EndsInSrt(name) ==
    Len(name) >= 4 /\ SubSeq(name, Len(name) - 3, Len(name)) = DotSrt
ClaimCandidate(name) == HasUnderscore(name) /\ EndsInSrt(name)
ClaimTarget(name) ==
    LET k == CHOOSE m \in 1..Len(name) :
                 name[m] = "_" /\ \A q \in 1..(m-1) : name[q] # "_"
    IN  <<LowerChar(name[k+1]), LowerChar(name[k+2])>> \o DotSrt

Conflict ==
    /\ Stepped
    /\ ClaimCandidate(last.name)
    /\ last.name \in DOMAIN prev
    /\ ClaimTarget(last.name) \in DOMAIN prev

OthersUntouched(name, target) ==
    \A n \in (DOMAIN prev \cup DOMAIN fs) \ {name, target} :
        n \in DOMAIN prev /\ n \in DOMAIN fs /\ fs[n] = prev[n]

\* C1 (as stated): on a conflict between files of different sizes, the file
\* left under the target name is the strictly larger one and the source
\* name is gone.
C1_LargerFileKept ==
    (Conflict /\ prev[last.name].size # prev[ClaimTarget(last.name)].size)
        => /\ ClaimTarget(last.name) \in DOMAIN fs
           /\ last.name \notin DOMAIN fs
           /\ fs[ClaimTarget(last.name)].size =
                 Max(prev[last.name].size, prev[ClaimTarget(last.name)].size)

\* C2: on a conflict between files of exactly the same size, the existing
\* target file stays as it was under the target name and the scanned
\* source file is deleted.
C2_TieKeepsExistingTarget ==
    (Conflict /\ prev[last.name].size = prev[ClaimTarget(last.name)].size)
        => /\ ClaimTarget(last.name) \in DOMAIN fs
           /\ fs[ClaimTarget(last.name)] = prev[ClaimTarget(last.name)]
           /\ last.name \notin DOMAIN fs
           /\ OthersUntouched(last.name, ClaimTarget(last.name))

C2_Witness ==
    /\ Conflict
    /\ prev[last.name].size = prev[ClaimTarget(last.name)].size
    /\ prev[last.name].content # prev[ClaimTarget(last.name)].content
    /\ last.name \notin DOMAIN fs

\* C3: a name with an underscore and the ".srt" suffix is handled under the
\* target name made of the two characters after its first underscore,
\* lower-cased, plus ".srt"; when nothing has that name the file is renamed
\* to it (old name gone, same content and size under the new name, nothing
\* else touched); any other name is left alone, as is the whole directory.
C3_TargetNameAndRename ==
    Stepped =>
        IF ClaimCandidate(last.name)
        THEN /\ last.branch \in {"rename", "replace", "discard"}
             /\ last.name \notin DOMAIN fs
             /\ ClaimTarget(last.name) \in DOMAIN fs
             /\ OthersUntouched(last.name, ClaimTarget(last.name))
             /\ (ClaimTarget(last.name) \notin DOMAIN prev
                   => fs[ClaimTarget(last.name)] = prev[last.name])
        ELSE last.branch = "skip" /\ fs = prev

C3_Witness ==
    /\ Stepped
    /\ last.name = N_m_EN_x_srt
    /\ N_en_srt \notin DOMAIN prev
    /\ N_en_srt \in DOMAIN fs
    /\ fs[N_en_srt] = prev[N_m_EN_x_srt]
    /\ N_m_EN_x_srt \notin DOMAIN fs

\* C10: when every candidate of the directory resolves to one target name
\* that is not itself a candidate, then whatever the order of the listing:
\* the scan never handles a missing file, it ends with exactly one of these
\* files, under the target name, whose size depends on the directory alone
\* (it is the smallest of their sizes), and every other file is unchanged.
Candidates0 == { n \in DOMAIN fs0 : IsCandidate(n) }
SameTarget(t) ==
    /\ Candidates0 # {}
    /\ \A c \in Candidates0 : TargetName(c) = t
    /\ ~IsCandidate(t)
Group0(t) == Candidates0 \cup ({t} \cap DOMAIN fs0)
SmallestSize(S) == CHOOSE m \in S : \A n \in S : n >= m

C10_OrderIndependentResult ==
    (npc \in {"done", "crashed"} /\ Candidates0 # {}) =>
        LET t == TargetName(CHOOSE c \in Candidates0 : TRUE)
            group == Group0(t)
        IN  SameTarget(t) =>
               /\ npc = "done"
               /\ DOMAIN fs \cap (Candidates0 \cup {t}) = {t}
               /\ fs[t].size = SmallestSize({ fs0[n].size : n \in group })
               /\ fs[t].content \in group
               /\ \A n \in DOMAIN fs0 \ (Candidates0 \cup {t}) :
                     n \in DOMAIN fs /\ fs[n] = fs0[n]
               /\ DOMAIN fs \subseteq DOMAIN fs0 \cup {t}

C10_Witness ==
    /\ npc = "done"
    /\ SameTarget(N_en_srt)
    /\ Cardinality(Candidates0) >= 2
    /\ N_en_srt \in DOMAIN fs0
    /\ Cardinality({ fs0[n].size : n \in Group0(N_en_srt) }) >= 3
    /\ fs[N_en_srt].content # N_en_srt

(***************************************************************************)
(* Claims about calculate_layout().                                        *)
(***************************************************************************)
\* C6: the grid has at most 3 columns and 3 rows, the width and height it
\* occupies (cards plus the spacing between them) do not exceed the page
\* minus its margins, and the A4 / 63x88 / 5 mm / 1 mm configuration gives
\* exactly 3 columns by 3 rows.
C6_GridFitsPrintableArea ==
    layout # NoLayout =>
        /\ layout.cols <= 3
        /\ layout.rows <= 3
        /\ layout.cols * cfg.card_width + (layout.cols - 1) * cfg.spacing_x
              <= cfg.page_width - cfg.margin_left - cfg.margin_right
        /\ layout.rows * cfg.card_height + (layout.rows - 1) * cfg.spacing_y
              <= cfg.page_height - cfg.margin_top - cfg.margin_bottom
        /\ cfg = ActualConfig => (layout.cols = 3 /\ layout.rows = 3)

C6_Witness ==
    /\ cfg = ActualConfig
    /\ layout # NoLayout
    /\ layout.cols = 3
    /\ layout.rows = 3

(***************************************************************************)
(* Claims about generate_pdf and main.                                     *)
(***************************************************************************)
CeilDiv(n, c) == (n + c - 1) \div c

EndedNormally == pc = "exit" /\ exitCode = 0 /\ images # <<>>

LastPageSize(n, c) == IF n % c = 0 THEN c ELSE n % c

\* C4: with preview off, N >= 1 images and C slots per page give ceil(N/C)
\* closed pages; every page but the last holds exactly C consecutive images
\* of the sorted list and the last holds N mod C of them (C when C divides N).
C4_PagesAreConsecutiveBatches ==
    (EndedNormally /\ ~preview) =>
        LET N == Len(images)
            C == cards_per_page
        IN  /\ C >= 1
            /\ \A a, b \in 1..N : a < b => images[a] < images[b]
            /\ Len(pages) = CeilDiv(N, C)
            /\ \A p \in 1..Len(pages) :
                  pages[p] =
                     [ k \in 1..(IF p < Len(pages) THEN C ELSE LastPageSize(N, C))
                         |-> images[(p - 1) * C + k] ]

C4_Witness ==
    /\ EndedNormally /\ ~preview
    /\ Len(pages) >= 3
    /\ cards_per_page >= 4
    /\ Len(images) % cards_per_page # 0
    /\ Len(pages[Len(pages)]) = Len(images) % cards_per_page

TenValidImagesOn3x3 ==
    /\ EndedNormally /\ ~preview
    /\ Len(images) = 10
    /\ layout.cols = 3 /\ layout.rows = 3
    /\ loadFailed = {} /\ insertFailed = {}

\* the only card of page p is the 10th image, in column 0 of the top row
TenthAloneAtOrigin(p) ==
    { d \in drawn : d.page = p } =
        {[ page |-> p, j |-> 0, image |-> images[10],
           x |-> layout.start_x,
           y |-> layout.start_y
                   + 2 * (layout.rows - 1) * (cfg.card_height + cfg.spacing_y) ]}

\* C5 (as stated): 10 valid images on a 3x3 layout give a 4-page document
\* with the 10th image alone at grid position (0, 0) of page 4.
C5_FourPages ==
    TenValidImagesOn3x3 => (Len(pages) = 4 /\ TenthAloneAtOrigin(4))

\* C5 (amended): 10 valid images on a 3x3 layout, preview off, give a
\* 2-page document (9 + 1) with the 10th image alone at grid position
\* (0, 0) of page 2.
C5_TwoPages ==
    TenValidImagesOn3x3 =>
        /\ Len(pages) = 2
        /\ Cardinality({ d \in drawn : d.page = 1 }) = 9
        /\ TenthAloneAtOrigin(2)

C5_Witness ==
    /\ TenValidImagesOn3x3
    /\ cfg = ActualConfig
    /\ Len(pages) = 2
    /\ saves = 1

\* C7: on every page the card of batch index k is at column k mod cols and
\* row k div cols, at x = start_x + col*(card_width + spacing_x) and
\* y = start_y + (rows-1-row)*(card_height + spacing_y) from the bottom-left
\* corner, so a lower row index is higher on the page, distinct batch
\* indices have distinct slots and no two cards of a page overlap.
C7_SlotPlacement ==
    /\ \A d \in drawn :
          LET col == d.j % layout.cols
              row == d.j \div layout.cols
          IN  /\ 0 <= d.j /\ d.j < layout.cols * layout.rows
              /\ col < layout.cols /\ row < layout.rows
              /\ d.x = layout.start_x + 2 * col * (cfg.card_width + cfg.spacing_x)
              /\ d.y = layout.start_y
                         + 2 * (layout.rows - 1 - row) * (cfg.card_height + cfg.spacing_y)
    /\ \A d1, d2 \in drawn :
          (d1.page = d2.page /\ d1.j # d2.j) =>
              /\ <<d1.x, d1.y>> # <<d2.x, d2.y>>
              /\ \/ d1.x + 2 * cfg.card_width <= d2.x
                 \/ d2.x + 2 * cfg.card_width <= d1.x
                 \/ d1.y + 2 * cfg.card_height <= d2.y
                 \/ d2.y + 2 * cfg.card_height <= d1.y
              /\ (d1.j \div layout.cols < d2.j \div layout.cols) => d1.y > d2.y
              /\ (d1.j \div layout.cols = 0) => d1.y >= d2.y

C7_Witness ==
    /\ cfg = ActualConfig
    /\ Cardinality({ d \in drawn : d.page = 1 }) = 9
    /\ \E d \in drawn : d.page = 2

\* the images of the pages closed so far, and the batch index an image has
\* by its rank in the sorted list
Emitted == UNION { { pages[p][k] : k \in 1..Len(pages[p]) } : p \in 1..Len(pages) }
Rank(img) == CHOOSE k \in 1..Len(images) : images[k] = img
OwnIndex(img) == (Rank(img) - 1) % cards_per_page
OwnPage(img) == ((Rank(img) - 1) \div cards_per_page) + 1

SkipsOnlyTheFailedSlot ==
    /\ error = "none" /\ exitCode # 1
    /\ \A d \in drawn :
          /\ d.image \notin loadFailed
          /\ d.page = OwnPage(d.image)
          /\ d.j = OwnIndex(d.image)
          /\ d.x = layout.start_x
                     + 2 * (OwnIndex(d.image) % layout.cols)
                         * (cfg.card_width + cfg.spacing_x)
          /\ d.y = layout.start_y
                     + 2 * (layout.rows - 1 - (OwnIndex(d.image) \div layout.cols))
                         * (cfg.card_height + cfg.spacing_y)
    /\ pc = "exit" =>
          /\ saves = 1
          /\ Len(pages) =
                IF preview THEN 1 ELSE CeilDiv(Len(images), cards_per_page)
          /\ loadFailed \subseteq Emitted
          /\ { d.image : d \in drawn } = Emitted \ (loadFailed \cup insertFailed)

\* C8 (as stated): an image that fails to load is not drawn, its slot stays
\* empty, the other images keep the slot of their own batch index, the page
\* and the later ones are closed, the document is saved once, and the count
\* of processed cards leaves out exactly the images that failed to load.
C8_CountExcludesLoadFailuresOnly ==
    loadFailed # {} =>
        /\ SkipsOnlyTheFailedSlot
        /\ pc = "exit" =>
              processed_images = Cardinality(Emitted) - Cardinality(loadFailed)

\* C8 (amended): as above, and the count of processed cards leaves out
\* exactly the images that failed to load and those whose insertion into
\* the document raised.
C8_FailedImageLeavesSlotEmpty ==
    loadFailed # {} =>
        /\ SkipsOnlyTheFailedSlot
        /\ pc = "exit" =>
              processed_images =
                  Cardinality(Emitted) - Cardinality(loadFailed)
                                       - Cardinality(insertFailed)

C8_Witness ==
    /\ pc = "exit"
    /\ saves = 1
    /\ Len(pages) >= 2
    /\ insertFailed # {}
    /\ \E f \in loadFailed : \E d \in drawn :
          d.page = OwnPage(f) /\ d.page = 1 /\ d.j > OwnIndex(f)

\* C9: when the source directory is missing or is not a directory, the run
\* ends with exit code 1 on FileNotFoundError or NotADirectoryError, and up
\* to then no page was drawn or closed, no temporary card image was written
\* and no output document was created or saved.
C9_InvalidSourceIsFatal ==
    srcKind # "dir" =>
        /\ pc \in {"main", "exit"}
        /\ pages = <<>> /\ drawn = {} /\ processed_images = 0
        /\ tempEver = 0 /\ tempFiles = {}
        /\ ~canvas /\ saves = 0
        /\ pc = "exit" =>
              /\ exitCode = 1
              /\ error = IF srcKind = "missing" THEN "FileNotFoundError"
                                                ELSE "NotADirectoryError"

C9_Witness ==
    /\ pc = "exit"
    /\ srcKind = "notdir"
    /\ exitCode = 1
    /\ error = "NotADirectoryError"

====
